---- MODULE Spec2Model ----
(***************************************************************************)
(* Model of the hangman game session (game_logic.py) and of the console    *)
(* input routine that feeds it (display.py).                               *)
(*                                                                         *)
(* A Python str is a sequence of one-character strings; a Python list of   *)
(* str is a sequence of such sequences.                                    *)
(*                                                                         *)
(* Five specifications:                                                    *)
(*   Spec     one call of play_game: word retrieval, the guessing loop     *)
(*            driven by get_letter_guess, the statistics update;           *)
(*   ApiSpec  create_game_session and make_guess called directly, with any *)
(*            word and any string as the letter, in any order;             *)
(*   AcctSpec the menu loop of main with login, registration, logout, exit *)
(*            and a restart of the process on the persisted file;          *)
(*   MainSpec the menu loop without rounds, with the menu answers main has *)
(*            no branch for and a file that can become read-only;          *)
(*   FnSpec   validate_password, generate_password, load_accounts,         *)
(*            save_accounts and logout_user called directly, and the manual *)
(*            password prompt of register_user.                            *)
(***************************************************************************)
EXTENDS Integers, Sequences, FiniteSets, TLC

VARIABLES game_session, current_user, pc, guess, returned, calls

\* main and accounts.py:
\*   accounts           the dict of main, in insertion order: a sequence of
\*                      [key, value] entries
\*   file               the JSON array in accounts.json: a sequence of records
\*   disk               what accounts.json is: "json" (holds the array and
\*                      can be written), "readonly" (holds the array, open
\*                      for writing fails), "malformed" (not JSON),
\*                      "missing" (no such file)
\*   acting             the key of the entry of accounts that current_user is
\*                      (the same object), or Standalone for a record that is
\*                      not in accounts
\*   process            "login" or "registration", the operation in progress
\*   username, password the locals of login_user / register_user: the entry
\*                      that passed its loop (a rejected entry is not kept)
\*   username_attempts, password_attempts   their attempt counters
\*   choice             the answer handle_max_attempts has just read, "" when
\*                      the last step was not one of its prompts
\*   success            "ok" or "failed" when login_user / register_user has
\*                      just returned that status, "none" otherwise
\*   credited, games    history: per username the number of games completed
\*                      under it plus the guest games merged into it; the
\*                      number of rounds played
VARIABLES accounts, file, disk, acting, process, username, password,
          username_attempts, password_attempts, choice, success,
          credited, games

game_vars == <<game_session, guess, returned, calls>>

acct_vars == <<accounts, file, disk, acting, process, username, password,
               username_attempts, password_attempts, choice, success,
               credited, games>>

vars == <<game_session, current_user, pc, guess, returned, calls,
          accounts, file, disk, acting, process, username, password,
          username_attempts, password_attempts, choice, success,
          credited, games>>

(***************************************************************************)
(* Bounds                                                                  *)
(***************************************************************************)
\* longest word handed to create_game_session
MaxWordLen == 2
\* number of direct make_guess calls on one session in ApiSpec
MaxCalls == 4
\* rounds played in one behaviour of AcctSpec
MaxGames == 2
\* longest JSON array handed to load_accounts in FnSpec
MaxRecords == 2
\* largest value of a statistics counter in AcctSpec
MaxCount == 3

(***************************************************************************)
(* Characters and the str methods the code uses                            *)
(***************************************************************************)
LowerChars == {"a", "c", "x"}
UpperChars == {"A", "C", "X", "Y", "Z", "Q", "W", "E"}
OtherChars == {"1", " "}
Chars == LowerChars \cup UpperChars \cup OtherChars

\* str.upper() on one character
upper_char(c) ==
    CASE c = "a" -> "A"
      [] c = "c" -> "C"
      [] c = "x" -> "X"
      [] OTHER -> c

\* str.upper()
upper(s) == [i \in 1..Len(s) |-> upper_char(s[i])]

\* str.isalpha(): non-empty and every character alphabetic
isalpha(s) == Len(s) > 0 /\ \A i \in 1..Len(s) : s[i] \in LowerChars \cup UpperChars

RECURSIVE lstrip(_)
lstrip(s) == IF s # <<>> /\ Head(s) = " " THEN lstrip(Tail(s)) ELSE s

RECURSIVE rstrip(_)
rstrip(s) == IF s # <<>> /\ s[Len(s)] = " " THEN rstrip(SubSeq(s, 1, Len(s) - 1)) ELSE s

\* str.strip()
strip(s) == rstrip(lstrip(s))

\* Python `x in some_list`
InList(x, list) == \E i \in 1..Len(list) : list[i] = x

\* Python `s in w` for two str: substring test (the empty str is in every str)
InStr(s, w) == \E i \in 0..(Len(w) - Len(s)) : SubSeq(w, i + 1, i + Len(s)) = s

\* all strings over a character set, of length lo..hi
StrsOver(S, lo, hi) == UNION {[1..n -> S] : n \in lo..hi}

(***************************************************************************)
(* game_logic.py                                                           *)
(***************************************************************************)
create_game_session(word) ==
    [word            |-> upper(word),
     guessed_letters |-> <<>>,
     correct_guesses |-> <<>>,
     wrong_guesses   |-> <<>>,
     lives           |-> 6,
     is_complete     |-> FALSE,
     is_won          |-> FALSE]

\* `letter in game_session["guessed_letters"]`, letter already upper-cased
AlreadyGuessed(gs, letter) == InList(letter, gs.guessed_letters)

\* variant: compares the number of correct guesses with the word's length
WordComplete_ByLength(word, correct_guesses) == Len(correct_guesses) = Len(word)

\* all(char in game_session["correct_guesses"] for char in word)
WordComplete(word, correct_guesses) ==
    \A i \in 1..Len(word) : InList(<<word[i]>>, correct_guesses)

\* variant: the game goes on at zero lives
NoLivesLeft_Strict(lives) == lives < 0

\* variant: the game is over one life early
NoLivesLeft_Early(lives) == lives <= 1

\* game_session["lives"] <= 0
NoLivesLeft(lives) == lives <= 0

\* variant: a completed word sets is_won but leaves is_complete alone
CorrectGuess_NoComplete(gs, letter) ==
    LET correct == Append(gs.correct_guesses, letter)
        done    == WordComplete(gs.word, correct)
    IN [gs EXCEPT !.guessed_letters = Append(gs.guessed_letters, letter),
                  !.correct_guesses = correct,
                  !.is_won          = IF done THEN TRUE ELSE @]

\* variant: a correct guess is put on guessed_letters only
CorrectGuess_Unrecorded(gs, letter) ==
    [gs EXCEPT !.guessed_letters = Append(gs.guessed_letters, letter)]

\* the branch of make_guess taken when letter is in word
CorrectGuess(gs, letter) ==
    LET correct == Append(gs.correct_guesses, letter)
        done    == WordComplete(gs.word, correct)
    IN [gs EXCEPT !.guessed_letters = Append(gs.guessed_letters, letter),
                  !.correct_guesses = correct,
                  !.is_complete     = IF done THEN TRUE ELSE @,
                  !.is_won          = IF done THEN TRUE ELSE @]

\* variant: a wrong guess is recorded but costs no life
WrongGuess_NoDecrement(gs, letter) ==
    LET over == NoLivesLeft(gs.lives)
    IN [gs EXCEPT !.guessed_letters = Append(gs.guessed_letters, letter),
                  !.wrong_guesses   = Append(gs.wrong_guesses, letter),
                  !.is_complete     = IF over THEN TRUE ELSE @,
                  !.is_won          = IF over THEN FALSE ELSE @]

\* the branch of make_guess taken when letter is not in word
WrongGuess(gs, letter) ==
    LET lives == gs.lives - 1
        over  == NoLivesLeft(lives)
    IN [gs EXCEPT !.guessed_letters = Append(gs.guessed_letters, letter),
                  !.wrong_guesses   = Append(gs.wrong_guesses, letter),
                  !.lives           = lives,
                  !.is_complete     = IF over THEN TRUE ELSE @,
                  !.is_won          = IF over THEN FALSE ELSE @]

\* variant: no test for a letter guessed before
make_guess_NoDuplicateTest(gs, letter) ==
    LET l == upper(letter)
    IN IF InStr(l, gs.word) THEN CorrectGuess(gs, l) ELSE WrongGuess(gs, l)

\* make_guess: the session after the call
make_guess(gs, letter) ==
    LET l == upper(letter)
    IN IF AlreadyGuessed(gs, l) THEN gs
       ELSE IF InStr(l, gs.word) THEN CorrectGuess(gs, l)
       ELSE WrongGuess(gs, l)

\* make_guess: the value returned
make_guess_ret(gs, letter) ==
    LET l == upper(letter)
    IN IF AlreadyGuessed(gs, l) THEN FALSE ELSE InStr(l, gs.word)

is_letter_already_guessed(gs, letter) == InList(upper(letter), gs.guessed_letters)

\* variant: the outcome is counted as a win or a loss but not as a play
RecordOutcome_NoPlays(user, won) ==
    IF won THEN [user EXCEPT !.session_wins = @ + 1]
           ELSE [user EXCEPT !.session_losses = @ + 1]

\* variant: a won round is counted as a loss as well
RecordOutcome_Both(user, won) ==
    IF won THEN [user EXCEPT !.session_wins = @ + 1, !.session_losses = @ + 1,
                             !.session_plays = @ + 1]
           ELSE [user EXCEPT !.session_losses = @ + 1, !.session_plays = @ + 1]

\* play_game, step 5: the outcome of the round is counted
RecordOutcome(user, won) ==
    IF won THEN [user EXCEPT !.session_wins = @ + 1, !.session_plays = @ + 1]
           ELSE [user EXCEPT !.session_losses = @ + 1, !.session_plays = @ + 1]

\* variant: the loop does not look at is_complete
LoopGuard_Always(gs) == TRUE

\* the condition of play_game's while loop
LoopGuard(gs) == ~gs.is_complete

(***************************************************************************)
(* display.py                                                              *)
(***************************************************************************)
\* get_letter_guess: what the prompt does to a typed line
NormalizeGuess(line) == upper(strip(line))

\* get_letter_guess: the test that ends its prompt loop
ValidGuess(g) == Len(g) = 1 /\ isalpha(g)

(***************************************************************************)
(* accounts.py                                                             *)
(***************************************************************************)
create_account(name, uname, pw) ==
    [name           |-> name,
     username       |-> uname,
     password       |-> pw,
     wins           |-> 0,
     losses         |-> 0,
     plays          |-> 0,
     session_wins   |-> 0,
     session_losses |-> 0,
     session_plays  |-> 0]

create_guest_account(name) == create_account(name, "guest", <<>>)

\* current_user["username"] == "guest"
IsGuest(user) == user.username = "guest"

\* variant: the session counters are zeroed after the fold
add_session_to_totals_Reset(account) ==
    [account EXCEPT !.wins           = @ + account.session_wins,
                    !.losses         = @ + account.session_losses,
                    !.plays          = @ + account.session_plays,
                    !.session_wins   = 0,
                    !.session_losses = 0,
                    !.session_plays  = 0]

\* add_session_to_totals: the account after the call
add_session_to_totals(account) ==
    [account EXCEPT !.wins   = @ + account.session_wins,
                    !.losses = @ + account.session_losses,
                    !.plays  = @ + account.session_plays]

\* str.islower / isupper / isdigit on one character, and `c in string.punctuation`
IsLowerChar(c) == c \in LowerChars
IsUpperChar(c) == c \in UpperChars
IsDigitChar(c) == c \in {"1"}
IsPunctuation(c) == c \in {"!"}

\* variant: no upper limit on the length
validate_password_NoUpperLimit(pw) ==
    IF Len(pw) < 1 THEN FALSE
    ELSE /\ \E i \in 1..Len(pw) : IsLowerChar(pw[i])
         /\ \E i \in 1..Len(pw) : IsUpperChar(pw[i])
         /\ \E i \in 1..Len(pw) : IsDigitChar(pw[i])
         /\ \E i \in 1..Len(pw) : IsPunctuation(pw[i])

validate_password(pw) ==
    IF Len(pw) > 16 \/ Len(pw) < 1 THEN FALSE
    ELSE /\ \E i \in 1..Len(pw) : IsLowerChar(pw[i])
         /\ \E i \in 1..Len(pw) : IsUpperChar(pw[i])
         /\ \E i \in 1..Len(pw) : IsDigitChar(pw[i])
         /\ \E i \in 1..Len(pw) : IsPunctuation(pw[i])

\* generate_password: the characters random.choice can pick from string.digits
\* and from symbols; lower and upper are LowerChars and UpperChars
Digits == {"1"}
SafeSymbols == {"!"}

\* variant: no symbol is put on the list
Guaranteed_NoSymbol(l, u, d, sy) == <<l, u, d>>

\* generate_password: the list with one character of each required type
Guaranteed(l, u, d, sy) == <<l, u, d, sy>>

\* generate_password: the number of characters appended by the for loop
FillLen == 8

\* a list without the first occurrence of c
RemoveOne(list, c) ==
    LET k == CHOOSE i \in 1..Len(list) :
                 list[i] = c /\ \A j \in 1..(i - 1) : list[j] # c
    IN [i \in 1..(Len(list) - 1) |-> IF i < k THEN list[i] ELSE list[i + 1]]

\* random.shuffle(password): every order of the list
RECURSIVE Shuffled(_)
Shuffled(list) ==
    IF list = <<>> THEN {<<>>}
    ELSE UNION {{<<c>> \o t : t \in Shuffled(RemoveOne(list, c))} :
                   c \in {list[i] : i \in 1..Len(list)}}

\* the limit of the attempt loops of login_user and register_user
MaxAttempts == 5

\* variant: the loops go on while attempts <= 5
AttemptsLeft_OneMore(attempts) == attempts <= MaxAttempts

\* the condition of the attempt loops: `while username_attempts < 5`
AttemptsLeft(attempts) == attempts < MaxAttempts

\* Python dict, in insertion order
HasKey(d, k) == \E i \in 1..Len(d) : d[i].key = k
Get(d, k) == d[CHOOSE i \in 1..Len(d) : d[i].key = k].value
Put(d, k, v) ==
    IF HasKey(d, k)
      THEN [i \in 1..Len(d) |-> IF d[i].key = k THEN [key |-> k, value |-> v] ELSE d[i]]
      ELSE Append(d, [key |-> k, value |-> v])
Values(d) == [i \in 1..Len(d) |-> d[i].value]

\* variant: any of the two answers that is not "1" aborts
EscalationOutcome_AbortByDefault(answer) ==
    IF answer = "1" THEN "retry" ELSE "abort"

\* handle_max_attempts: what an answer to its prompt leads to
EscalationOutcome(answer) ==
    CASE answer = "1" -> "retry"
      [] answer = "2" -> "abort"
      [] OTHER        -> "reprompt"

\* variant: an empty entry passes
PasswordMatches_EmptyPasses(stored, entered) == stored = entered \/ entered = <<>>

\* login_user: accounts[username]["password"] == password
PasswordMatches(stored, entered) == stored = entered

\* variant: the guest's counters replace the target's
MergeGuestSession_Overwrite(target, guest) ==
    [target EXCEPT !.session_wins   = guest.session_wins,
                   !.session_losses = guest.session_losses,
                   !.session_plays  = guest.session_plays]

\* login_user, step 3: the guest's session counters are added to the target's
MergeGuestSession(target, guest) ==
    [target EXCEPT !.session_wins   = @ + guest.session_wins,
                   !.session_losses = @ + guest.session_losses,
                   !.session_plays  = @ + guest.session_plays]

\* login_user, step 3 and the assignment of current_user: the target record
LoginRecord(target, user) ==
    IF IsGuest(user) THEN MergeGuestSession(target, user) ELSE target

\* variant: only the empty username is refused
UsernameAcceptable_NoTakenTest(name, d) == name # ""

\* register_user: `username and username not in accounts`
UsernameAcceptable(name, d) == name # "" /\ ~HasKey(d, name)

\* variant: the guest's counters go into the lifetime totals as well
NewAccount_IntoLifetime(name, uname, pw, user) ==
    LET new == create_account(name, uname, pw)
    IN IF IsGuest(user)
         THEN [new EXCEPT !.session_wins   = user.session_wins,
                          !.session_losses = user.session_losses,
                          !.session_plays  = user.session_plays,
                          !.wins           = user.session_wins,
                          !.losses         = user.session_losses,
                          !.plays          = user.session_plays]
         ELSE new

\* register_user, steps 4 and 5: the new record
NewAccount(name, uname, pw, user) ==
    LET new == create_account(name, uname, pw)
    IN IF IsGuest(user)
         THEN [new EXCEPT !.session_wins   = user.session_wins,
                          !.session_losses = user.session_losses,
                          !.session_plays  = user.session_plays]
         ELSE new

(***************************************************************************)
(* storage.py                                                              *)
(***************************************************************************)
\* variant: the session counters are written as zero
save_accounts_SessionZeroed(d) ==
    [i \in 1..Len(d) |-> [d[i].value EXCEPT !.session_wins = 0,
                                            !.session_losses = 0,
                                            !.session_plays = 0]]

\* save_accounts: the array written, list(accounts.values())
save_accounts(d) == Values(d)

\* save_accounts: open(accounts_file, 'w') succeeds
Writable(state) == state # "readonly"

\* load_accounts: the loop over the array; account_data["username"] of a
\* record without that key raises KeyError, which ends the loop with the
\* dict as built so far
RECURSIVE LoadInto(_, _)
LoadInto(d, data) ==
    IF data = <<>> THEN d
    ELSE IF "username" \notin DOMAIN Head(data) THEN d
    ELSE LoadInto(Put(d, Head(data).username, Head(data)), Tail(data))

\* load_accounts: the dict returned; a missing file is not read, text that
\* is not JSON raises JSONDecodeError before the loop
load_accounts(state, data) ==
    IF state \in {"missing", "malformed"} THEN <<>> ELSE LoadInto(<<>>, data)

(***************************************************************************)
(* Inputs                                                                  *)
(***************************************************************************)
WordChars == {"c", "A"}

\* words the word source or the fallback list hands to play_game
Words == StrsOver(WordChars, 1, MaxWordLen)

\* words handed directly to create_game_session
ApiWords == StrsOver(WordChars, 0, MaxWordLen)

\* lines typed at the "Enter a letter" prompt
TypedLines ==
    {<<c>> : c \in UpperChars \cup {"a", "x"}}
    \cup {<<" ", "c", " ">>, <<>>, <<" ">>, <<"1">>, <<"A", "C">>}

\* strings handed directly to make_guess
ApiLetters ==
    {<<>>, <<"a">>, <<"A">>, <<"C">>, <<"x">>, <<"X">>, <<"1">>, <<"A", "C">>, <<" ">>}

\* the value of game_session before any session is created
NoSession == [create_game_session(<<>>) EXCEPT !.lives = 0]

\* the value of acting for a current_user that is not an entry of accounts
Standalone == "<standalone>"

\* lines typed at the username prompts
UsernameLines == {"ann", " ann", "guest", ""}

\* lines typed at the prompts of handle_max_attempts and of the password choice
ChoiceLines == {"1", "2", " 2", "9"}

\* str.strip() on the lines above
strip_line(line) ==
    CASE line = " ann" -> "ann"
      [] line = " 2"   -> "2"
      [] OTHER         -> line

\* usernames an account can exist under
AllUsernames == {strip_line(l) : l \in UsernameLines} \ {""}

\* a password generate_password can return
GeneratedPassword == <<"x", "A", "1", "!", "c", "C", "a", "1", "!", "X", "Y", "a">>

\* a password that meets the requirements and is not the one above
OtherPassword == <<"a", "A", "1", "!">>

\* lines typed at the password prompt of register_user
RegPasswordLines ==
    {GeneratedPassword, <<" ">> \o GeneratedPassword \o <<" ">>, <<"a">>, <<>>,
     GeneratedPassword \o <<"1", "!", "a", "A", "1">>}

\* lines typed at the password prompt of login_user
LoginPasswordLines ==
    {GeneratedPassword, <<" ">> \o GeneratedPassword \o <<" ">>, OtherPassword, <<>>}

\* lines typed at the display-name prompt of register_user
NameLines == {"", " ann"}

\* lines typed at the name prompt of get_user_name
GuestNameLines == {"", "Player"}

\* the rounds played in AcctSpec: the word and the lines typed
RoundWords == {<<"c", "A">>}
RoundScripts ==
    {<< <<"a">>, <<"1">>, <<"A">>, <<"x">>, <<" ", "c", " ">> >>,
     << <<"X">>, <<"Y">>, <<"Z">>, <<"Q">>, <<"a">>, <<"W">>, <<"E">> >>}

\* play_game, steps 1 to 3 on the lines typed: the session when the loop ends
\* or the lines run out
RECURSIVE RunLoop(_, _)
RunLoop(gs, lines) ==
    IF ~LoopGuard(gs) \/ lines = <<>> THEN gs
    ELSE LET g == NormalizeGuess(Head(lines))
         IN IF ~ValidGuess(g) \/ is_letter_already_guessed(gs, g)
              THEN RunLoop(gs, Tail(lines))
              ELSE RunLoop(make_guess(gs, g), Tail(lines))

PlayRound(word, lines) == RunLoop(create_game_session(word), lines)

\* the state of main after setup_accounts_file and load_accounts on a new file
AcctVarsInit ==
    /\ accounts = <<>>
    /\ file = <<>>
    /\ disk = "json"
    /\ acting = Standalone
    /\ process = ""
    /\ username = ""
    /\ password = <<>>
    /\ username_attempts = 0
    /\ password_attempts = 0
    /\ choice = ""
    /\ success = "none"
    /\ credited = [u \in AllUsernames |-> 0]
    /\ games = 0

(***************************************************************************)
(* Spec: one call of play_game                                             *)
(***************************************************************************)
Init ==
    /\ game_session = NoSession
    /\ current_user = create_guest_account("Player")
    /\ pc = "start"
    /\ guess = <<>>
    /\ returned = FALSE
    /\ calls = 0
    /\ AcctVarsInit

\* play_game, steps 1 and 2: a word is retrieved and the session created
PlayGameStart ==
    /\ pc = "start"
    /\ \E word \in Words : game_session' = create_game_session(word)
    /\ pc' = "loop"
    /\ UNCHANGED <<current_user, guess, returned, calls>>
    /\ UNCHANGED acct_vars

\* play_game, step 3: one iteration of the guessing loop
PlayGameGuess ==
    /\ pc = "loop"
    /\ LoopGuard(game_session)
    /\ \E line \in TypedLines :
         LET g == NormalizeGuess(line)
         IN IF ~ValidGuess(g)
              THEN UNCHANGED vars      \* get_letter_guess prompts again
            ELSE IF is_letter_already_guessed(game_session, g)
              THEN UNCHANGED vars      \* "You already guessed that letter!"
            ELSE /\ game_session' = make_guess(game_session, g)
                 /\ returned' = make_guess_ret(game_session, g)
                 /\ guess' = g
                 /\ calls' = calls + 1
                 /\ UNCHANGED <<current_user, pc>>
                 /\ UNCHANGED acct_vars

\* play_game, steps 4 to 6: the loop has ended, the outcome is counted
PlayGameFinish ==
    /\ pc = "loop"
    /\ ~LoopGuard(game_session)
    /\ current_user' = RecordOutcome(current_user, game_session.is_won)
    /\ pc' = "done"
    /\ UNCHANGED <<game_session, guess, returned, calls>>
    /\ UNCHANGED acct_vars

Next == PlayGameStart \/ PlayGameGuess \/ PlayGameFinish

Spec == Init /\ [][Next]_vars

(***************************************************************************)
(* ApiSpec: the functions of game_logic.py called directly                 *)
(***************************************************************************)
ApiCreate ==
    /\ \E word \in ApiWords : game_session' = create_game_session(word)
    /\ pc' = "api"
    /\ guess' = <<>>
    /\ returned' = FALSE
    /\ calls' = 0
    /\ UNCHANGED current_user
    /\ UNCHANGED acct_vars

ApiMakeGuess ==
    /\ pc = "api"
    /\ calls < MaxCalls
    /\ \E letter \in ApiLetters :
         /\ game_session' = make_guess(game_session, letter)
         /\ returned' = make_guess_ret(game_session, letter)
         /\ guess' = letter
    /\ calls' = calls + 1
    /\ UNCHANGED <<current_user, pc>>
    /\ UNCHANGED acct_vars

ApiNext == ApiCreate \/ ApiMakeGuess

ApiSpec == Init /\ [][ApiNext]_vars

(***************************************************************************)
(* AcctSpec: the menu loop of main                                         *)
(***************************************************************************)
AcctInit ==
    /\ game_session = NoSession
    /\ current_user = create_guest_account("Player")
    /\ pc = "menu"
    /\ guess = <<>>
    /\ returned = FALSE
    /\ calls = 0
    /\ AcctVarsInit

\* accounts after current_user, the object, has been given the value rec
StoreCurrent(rec) ==
    IF acting = Standalone THEN accounts ELSE Put(accounts, acting, rec)

\* the step is not a prompt of handle_max_attempts and not a return of
\* login_user or register_user
Quiet == choice' = "" /\ success' = "none"

\* the attempt counters are gone with the call that returns
CountersGone == username_attempts' = 0 /\ password_attempts' = 0

\* the locals of login_user or register_user at entry
LocalsFresh ==
    /\ username' = ""
    /\ password' = <<>>
    /\ username_attempts' = 0
    /\ password_attempts' = 0

\* main, choice 1 of either menu: play_game on the lines typed
AcctPlayGame ==
    /\ pc = "menu"
    /\ games < MaxGames
    /\ \E word \in RoundWords, lines \in RoundScripts :
         LET gs   == PlayRound(word, lines)
             user == RecordOutcome(current_user, gs.is_won)
         IN /\ gs.is_complete
            /\ user.session_plays <= MaxCount
            /\ current_user' = user
            /\ accounts' = StoreCurrent(user)
    /\ credited' = IF acting = Standalone THEN credited
                   ELSE [credited EXCEPT ![acting] = @ + 1]
    /\ games' = games + 1
    /\ Quiet
    /\ LocalsFresh
    /\ process' = ""
    /\ UNCHANGED <<pc, file, acting>>
    /\ UNCHANGED game_vars
    /\ UNCHANGED disk

\* main, choice 2 of the guest menu: login_user is entered
AcctLoginStart ==
    /\ pc = "menu"
    /\ IsGuest(current_user)
    /\ pc' = "login_username"
    /\ process' = "login"
    /\ LocalsFresh
    /\ Quiet
    /\ UNCHANGED <<current_user, accounts, file, acting, credited, games>>
    /\ UNCHANGED game_vars
    /\ UNCHANGED disk

\* login_user, step 1: one pass of the username loop
AcctLoginUsername ==
    /\ pc = "login_username"
    /\ \E line \in UsernameLines :
         LET entered == strip_line(line)
         IN IF HasKey(accounts, entered)
              THEN /\ username' = entered
                   /\ pc' = "login_password"
                   /\ UNCHANGED username_attempts
              ELSE /\ username_attempts' = username_attempts + 1
                   /\ pc' = IF AttemptsLeft(username_attempts')
                              THEN "login_username" ELSE "escalate"
                   /\ UNCHANGED username
    /\ Quiet
    /\ UNCHANGED <<current_user, accounts, file, acting, process, password,
                   password_attempts, credited, games>>
    /\ UNCHANGED game_vars
    /\ UNCHANGED disk

\* login_user, steps 2 and 3: one pass of the password loop
AcctLoginPassword ==
    /\ pc = "login_password"
    /\ \E line \in LoginPasswordLines :
         LET entered == strip(line)
             target  == Get(accounts, username)
             record  == LoginRecord(target, current_user)
         IN IF PasswordMatches(target.password, entered)
              THEN /\ record.session_plays <= MaxCount
                   /\ credited[username] + current_user.session_plays <= MaxCount
                   /\ password' = entered
                   /\ accounts' = Put(accounts, username, record)
                   /\ current_user' = record
                   /\ acting' = username
                   /\ credited' = IF IsGuest(current_user)
                                    THEN [credited EXCEPT
                                            ![username] = @ + current_user.session_plays]
                                    ELSE credited
                   /\ success' = "ok"
                   /\ pc' = "menu"
                   /\ CountersGone
              ELSE /\ password_attempts' = password_attempts + 1
                   /\ pc' = IF AttemptsLeft(password_attempts')
                              THEN "login_password" ELSE "escalate"
                   /\ success' = "none"
                   /\ UNCHANGED <<current_user, accounts, acting, password,
                                  username_attempts, credited>>
    /\ choice' = ""
    /\ UNCHANGED <<file, process, username, games>>
    /\ UNCHANGED game_vars
    /\ UNCHANGED disk

\* handle_max_attempts: one pass of its prompt loop
AcctEscalate ==
    /\ pc = "escalate"
    /\ \E line \in ChoiceLines :
         LET answer  == strip_line(line)
             outcome == EscalationOutcome(answer)
         IN /\ choice' = answer
            /\ CASE outcome = "retry" ->
                      /\ pc' = IF process = "login" THEN "login_username"
                                                    ELSE "reg_username"
                      /\ LocalsFresh
                      /\ success' = "none"
                 [] outcome = "abort" ->
                      /\ pc' = "menu"
                      /\ success' = "failed"
                      /\ LocalsFresh
                 [] OTHER ->
                      /\ success' = "none"
                      /\ UNCHANGED <<pc, username, password, username_attempts,
                                     password_attempts>>
    /\ UNCHANGED <<current_user, accounts, file, acting, process, credited, games>>
    /\ UNCHANGED game_vars
    /\ UNCHANGED disk

\* main, choice 3 of the guest menu: register_user is entered
AcctRegisterStart ==
    /\ pc = "menu"
    /\ IsGuest(current_user)
    /\ pc' = "reg_username"
    /\ process' = "registration"
    /\ LocalsFresh
    /\ Quiet
    /\ UNCHANGED <<current_user, accounts, file, acting, credited, games>>
    /\ UNCHANGED game_vars
    /\ UNCHANGED disk

\* register_user, step 1: one pass of the username loop
AcctRegUsername ==
    /\ pc = "reg_username"
    /\ \E line \in UsernameLines :
         LET entered == strip_line(line)
         IN IF UsernameAcceptable(entered, accounts)
              THEN /\ username' = entered
                   /\ pc' = "reg_choice"
                   /\ UNCHANGED username_attempts
              ELSE /\ username_attempts' = username_attempts + 1
                   /\ pc' = IF AttemptsLeft(username_attempts')
                              THEN "reg_username" ELSE "escalate"
                   /\ UNCHANGED username
    /\ Quiet
    /\ UNCHANGED <<current_user, accounts, file, acting, process, password,
                   password_attempts, credited, games>>
    /\ UNCHANGED game_vars
    /\ UNCHANGED disk

\* register_user, step 2: manual or generated password
AcctRegChoice ==
    /\ pc = "reg_choice"
    /\ \E line \in ChoiceLines :
         IF strip_line(line) = "2"
           THEN /\ password' = GeneratedPassword
                /\ pc' = "reg_name"
           ELSE /\ pc' = "reg_password"
                /\ UNCHANGED password
    /\ Quiet
    /\ UNCHANGED <<current_user, accounts, file, acting, process, username,
                   username_attempts, password_attempts, credited, games>>
    /\ UNCHANGED game_vars
    /\ UNCHANGED disk

\* register_user, step 2: one pass of the manual password loop
AcctRegPassword ==
    /\ pc = "reg_password"
    /\ \E line \in RegPasswordLines :
         LET entered == strip(line)
         IN IF validate_password(entered)
              THEN /\ password' = entered
                   /\ pc' = "reg_name"
                   /\ UNCHANGED password_attempts
              ELSE /\ password_attempts' = password_attempts + 1
                   /\ pc' = IF AttemptsLeft(password_attempts')
                              THEN "reg_password" ELSE "escalate"
                   /\ UNCHANGED password
    /\ Quiet
    /\ UNCHANGED <<current_user, accounts, file, acting, process, username,
                   username_attempts, credited, games>>
    /\ UNCHANGED game_vars
    /\ UNCHANGED disk

\* register_user, steps 3 to 6: display name, new record, insertion, save
AcctRegName ==
    /\ pc = "reg_name"
    /\ \E line \in NameLines :
         LET typed == strip_line(line)
             name  == IF typed = "" THEN username ELSE typed
             new   == NewAccount(name, username, password, current_user)
         IN /\ accounts' = Put(accounts, username, new)
            /\ IF Writable(disk)
                 THEN /\ file' = save_accounts(accounts')
                      /\ current_user' = new
                      /\ acting' = username
                      /\ success' = "ok"
                      /\ pc' = "menu"
                 ELSE \* the exception leaves save_accounts, register_user
                      \* and the loop of main
                      /\ pc' = "crashed"
                      /\ success' = "none"
                      /\ UNCHANGED <<file, current_user, acting>>
    /\ credited' = IF IsGuest(current_user) /\ Writable(disk)
                     THEN [credited EXCEPT ![username] = current_user.session_plays]
                     ELSE credited
    /\ choice' = ""
    /\ CountersGone
    /\ UNCHANGED <<process, username, password, games>>
    /\ UNCHANGED game_vars
    /\ UNCHANGED disk

\* main, choice 2 of the registered menu: logout_user
AcctLogout ==
    /\ pc = "menu"
    /\ ~IsGuest(current_user)
    /\ LET folded == add_session_to_totals(current_user)
       IN /\ folded.plays <= MaxCount
          /\ accounts' = StoreCurrent(folded)
          /\ IF Writable(disk)
               THEN /\ file' = save_accounts(accounts')
                    /\ \E line \in GuestNameLines :
                         /\ strip_line(line) # ""    \* get_user_name prompts again
                         /\ current_user' = create_guest_account(strip_line(line))
                    /\ acting' = Standalone
                    /\ UNCHANGED pc
               ELSE /\ pc' = "crashed"
                    /\ current_user' = folded
                    /\ UNCHANGED <<file, acting>>
    /\ Quiet
    /\ LocalsFresh
    /\ process' = ""
    /\ UNCHANGED <<credited, games>>
    /\ UNCHANGED game_vars
    /\ UNCHANGED disk

\* main, choice 4 of the guest menu and 3 of the registered menu: exit_game
AcctExit ==
    /\ pc = "menu"
    /\ IF ~IsGuest(current_user)
         THEN LET folded == add_session_to_totals(current_user)
              IN /\ folded.plays <= MaxCount
                 /\ current_user' = folded
                 /\ accounts' = StoreCurrent(folded)
                 /\ IF Writable(disk)
                      THEN file' = save_accounts(accounts') /\ pc' = "exited"
                      ELSE file' = file /\ pc' = "crashed"
         ELSE /\ pc' = "exited"
              /\ UNCHANGED <<current_user, accounts, file>>
    /\ Quiet
    /\ LocalsFresh
    /\ process' = ""
    /\ UNCHANGED <<acting, credited, games>>
    /\ UNCHANGED game_vars
    /\ UNCHANGED disk

\* the program is started again: main, steps 1 and 2
AcctRestart ==
    /\ pc \in {"exited", "crashed"}
    /\ accounts' = load_accounts(disk, file)
    /\ \E line \in GuestNameLines :
         /\ strip_line(line) # ""
         /\ current_user' = create_guest_account(strip_line(line))
    /\ acting' = Standalone
    /\ process' = ""
    /\ LocalsFresh
    /\ pc' = "menu"
    /\ Quiet
    /\ UNCHANGED <<file, credited, games>>
    /\ UNCHANGED game_vars
    /\ UNCHANGED disk

AcctNext ==
    \/ AcctPlayGame
    \/ AcctLoginStart \/ AcctLoginUsername \/ AcctLoginPassword
    \/ AcctEscalate
    \/ AcctRegisterStart \/ AcctRegUsername \/ AcctRegChoice
    \/ AcctRegPassword \/ AcctRegName
    \/ AcctLogout \/ AcctExit \/ AcctRestart

AcctSpec == AcctInit /\ [][AcctNext]_vars

(***************************************************************************)
(* MainSpec: the menu loop with every answer to the menu prompt but "1"    *)
(* and a file that can become read-only                                    *)
(***************************************************************************)
\* lines typed at the menu prompt that start none of the operations above
MenuLines == {"4", " 4", "9", ""}

\* get_menu_choice: the test that ends its prompt loop
ValidMenuChoice(c) == c \in {"1", "2", "3", "4"}

\* main, step 4: the answers the menu of the identity has a branch for
Dispatched(user) ==
    IF IsGuest(user) THEN {"1", "2", "3", "4"} ELSE {"1", "2", "3"}

\* get_menu_choice and main on an answer that starts no operation: an
\* answer that fails the test is refused with a message and asked again;
\* one that passes it and has no branch in main is dropped, the loop shows
\* the menu again
AcctMenuOther ==
    /\ pc = "menu"
    /\ \E line \in MenuLines :
         LET c == IF line = " 4" THEN "4" ELSE strip_line(line)
         IN /\ c \notin Dispatched(current_user) \/ ~ValidMenuChoice(c)
            /\ choice' = c
            /\ success' = IF ValidMenuChoice(c) THEN "ignored" ELSE "rejected"
    /\ LocalsFresh
    /\ process' = ""
    /\ UNCHANGED <<current_user, pc, accounts, file, disk, acting, credited, games>>
    /\ UNCHANGED game_vars

\* the environment: accounts.json can no longer be opened for writing; the
\* program looks at the file only in load_accounts and save_accounts, so
\* the change is taken at the menu prompt before the operation that writes
DiskLocked ==
    /\ disk = "json"
    /\ pc = "menu"
    /\ disk' = "readonly"
    /\ UNCHANGED <<game_session, current_user, pc, guess, returned, calls,
                   accounts, file, acting, process, username, password,
                   username_attempts, password_attempts, choice, success,
                   credited, games>>

\* every answer to the menu prompt but "1": no round is played
MainNext ==
    \/ AcctLoginStart \/ AcctLoginUsername \/ AcctLoginPassword
    \/ AcctEscalate
    \/ AcctRegisterStart \/ AcctRegUsername \/ AcctRegChoice
    \/ AcctRegPassword \/ AcctRegName
    \/ AcctLogout \/ AcctExit \/ AcctRestart
    \/ AcctMenuOther
    \/ DiskLocked

MainSpec == AcctInit /\ [][MainNext]_vars

(***************************************************************************)
(* FnSpec: functions of accounts.py and storage.py called directly         *)
(***************************************************************************)
\* the four character types of the password policy
Classes == {"lower", "upper", "digit", "symbol"}

\* one character of each type in S
Core(S) ==
    (IF "lower" \in S THEN <<"a">> ELSE <<>>)
      \o (IF "upper" \in S THEN <<"A">> ELSE <<>>)
      \o (IF "digit" \in S THEN <<"1">> ELSE <<>>)
      \o (IF "symbol" \in S THEN <<"!">> ELSE <<>>)

\* core made n characters long with a character of a type it has already
\* (a blank when it has none); core itself when it is that long
Padded(core, n) ==
    core \o [i \in 1..(n - Len(core)) |-> IF core = <<>> THEN " " ELSE core[1]]

\* passwords handed to validate_password: every combination of types, as
\* short as possible, 16 and 17 characters long
Candidates == {Padded(Core(S), n) : S \in SUBSET Classes, n \in {0, 16, 17}}

\* what random.choice picks in generate_password
PickLower == {"a", "x"}
PickUpper == {"A", "C"}
FillChars == {"a"}

\* account records as the program writes them
StoreRecords ==
    {[create_account("Ann", "ann", GeneratedPassword)
         EXCEPT !.wins = 1, !.plays = 1, !.session_wins = 1, !.session_plays = 1],
     [create_account("ann", "ann", OtherPassword)
         EXCEPT !.session_losses = 1, !.session_plays = 1],
     create_account("ann", "guest", GeneratedPassword)}

\* stores the program builds from them: every key is the username of its record
Stores ==
    {<<>>}
      \cup {<<[key |-> r.username, value |-> r]>> : r \in StoreRecords}
      \cup {<<[key |-> r.username, value |-> r], [key |-> q.username, value |-> q]>> :
               r \in {x \in StoreRecords : x.username = "ann"},
               q \in {x \in StoreRecords : x.username = "guest"}}
      \cup {<<[key |-> q.username, value |-> q], [key |-> r.username, value |-> r]>> :
               r \in {x \in StoreRecords : x.username = "ann"},
               q \in {x \in StoreRecords : x.username = "guest"}}

\* elements of a JSON array in accounts.json: account records and an
\* object without the username key
DocEntries == StoreRecords \cup {[name |-> "Ann", password |-> OtherPassword]}

\* arrays read by load_accounts
Documents == UNION {[1..n -> DocEntries] : n \in 0..MaxRecords}

\* guest records logout_user is called with
Guests ==
    {create_guest_account("Player"),
     [create_guest_account("Player")
         EXCEPT !.session_wins = 1, !.session_losses = 1, !.session_plays = 2]}

\* the variables a call does not use
FnIdle ==
    /\ game_session = NoSession
    /\ guess = <<>>
    /\ returned = FALSE
    /\ calls = 0
    /\ username_attempts = 0
    /\ password_attempts = 0
    /\ choice = ""
    /\ success = "none"
    /\ credited = [u \in AllUsernames |-> 0]
    /\ games = 0

\* the state before one call, with its arguments
FnInit ==
    /\ FnIdle
    /\ \/ /\ pc = "call_validate_password"
          /\ password \in Candidates
          /\ current_user = create_guest_account("Player")
          /\ accounts = <<>> /\ file = <<>> /\ disk = "json"
          /\ acting = Standalone /\ process = "" /\ username = ""
       \/ /\ pc = "call_generate_password"
          /\ password = <<>>
          /\ current_user = create_guest_account("Player")
          /\ accounts = <<>> /\ file = <<>> /\ disk = "json"
          /\ acting = Standalone /\ process = "" /\ username = ""
       \/ /\ pc = "call_load_accounts"
          /\ \/ disk \in {"json", "readonly"} /\ file \in Documents
             \/ disk \in {"malformed", "missing"} /\ file = <<>>
          /\ password = <<>>
          /\ current_user = create_guest_account("Player")
          /\ accounts = <<>>
          /\ acting = Standalone /\ process = "" /\ username = ""
       \/ /\ pc = "call_save_accounts"
          /\ accounts \in Stores
          /\ disk \in {"json", "readonly", "missing"} /\ file = <<>>
          /\ password = <<>>
          /\ current_user = create_guest_account("Player")
          /\ acting = Standalone /\ process = "" /\ username = ""
       \/ /\ pc = "call_logout_user"
          /\ accounts \in Stores
          /\ \/ acting = Standalone /\ current_user \in Guests
             \/ /\ acting \in {accounts[i].key : i \in 1..Len(accounts)}
                /\ current_user = Get(accounts, acting)
          /\ disk \in {"json", "readonly"} /\ file = save_accounts(accounts)
          /\ password = <<>> /\ process = "" /\ username = ""
       \/ /\ pc = "reg_password"
          /\ process = "registration"
          /\ username = "ann"
          /\ password = <<>>
          /\ current_user \in Guests
          /\ accounts = <<>> /\ file = <<>> /\ disk = "json"
          /\ acting = Standalone

\* validate_password(password)
FnValidate ==
    /\ pc = "call_validate_password"
    /\ returned' = validate_password(password)
    /\ pc' = "validated"
    /\ UNCHANGED <<game_session, current_user, guess, calls>>
    /\ UNCHANGED acct_vars

\* generate_password(): the picks, the for loop, the shuffle and the join
FnGenerate ==
    /\ pc = "call_generate_password"
    /\ \E l \in PickLower, u \in PickUpper, d \in Digits, sy \in SafeSymbols,
          fill \in [1..FillLen -> FillChars] :
         password' \in Shuffled(Guaranteed(l, u, d, sy) \o fill)
    /\ pc' = "generated"
    /\ UNCHANGED <<game_session, current_user, guess, returned, calls>>
    /\ UNCHANGED <<accounts, file, disk, acting, process, username,
                   username_attempts, password_attempts, choice, success,
                   credited, games>>

\* load_accounts(accounts_file), on a file as given or as save_accounts left it
FnLoad ==
    /\ pc \in {"call_load_accounts", "saved"}
    /\ returned' = load_accounts(disk, file)
    /\ pc' = IF pc = "saved" THEN "reloaded" ELSE "loaded"
    /\ UNCHANGED <<game_session, current_user, guess, calls>>
    /\ UNCHANGED acct_vars

\* save_accounts(accounts, accounts_file)
FnSave ==
    /\ pc = "call_save_accounts"
    /\ IF Writable(disk)
         THEN file' = save_accounts(accounts) /\ disk' = "json" /\ pc' = "saved"
         ELSE pc' = "raised" /\ UNCHANGED <<file, disk>>
    /\ UNCHANGED <<game_session, current_user, guess, returned, calls>>
    /\ UNCHANGED <<accounts, acting, process, username, password,
                   username_attempts, password_attempts, choice, success,
                   credited, games>>

\* logout_user(current_user, accounts, accounts_file)
FnLogout ==
    /\ pc = "call_logout_user"
    /\ IF ~IsGuest(current_user)
         THEN LET folded == add_session_to_totals(current_user)
              IN /\ accounts' = StoreCurrent(folded)
                 /\ IF Writable(disk)
                      THEN /\ file' = save_accounts(accounts')
                           /\ \E line \in GuestNameLines :
                                /\ strip_line(line) # ""
                                /\ current_user' = create_guest_account(strip_line(line))
                           /\ acting' = Standalone
                           /\ pc' = "logged_out"
                      ELSE /\ pc' = "raised"
                           /\ current_user' = folded
                           /\ UNCHANGED <<file, acting>>
         ELSE /\ \E line \in GuestNameLines :
                   /\ strip_line(line) # ""
                   /\ current_user' = create_guest_account(strip_line(line))
              /\ acting' = Standalone
              /\ pc' = "logged_out"
              /\ UNCHANGED <<accounts, file>>
    /\ UNCHANGED <<game_session, guess, returned, calls>>
    /\ UNCHANGED <<disk, process, username, password, username_attempts,
                   password_attempts, choice, success, credited, games>>

FnNext ==
    \/ FnValidate \/ FnGenerate \/ FnLoad \/ FnSave \/ FnLogout
    \/ AcctRegPassword \/ AcctRegName

FnSpec == FnInit /\ [][FnNext]_vars

(***************************************************************************)
(* Properties                                                              *)
(***************************************************************************)
\* a session exists: create_game_session has been called
Created == pc # "start"

\* the elements of a Python list, as a set
ListSet(list) == {list[i] : i \in 1..Len(list)}

\* the distinct characters of a word, each as a one-character str
DistinctLetters(word) == {<<word[i]>> : i \in 1..Len(word)}

\* C1: after every make_guess call on a created session, for every word,
\* lives equals 6 minus the number of entries of wrong_guesses.
C1_LivesMatchWrong ==
    Created => game_session.lives = 6 - Len(game_session.wrong_guesses)

\* MaxCalls calls have been made: two wrong guesses, one correct guess, and
\* the remaining calls repeated a letter guessed before
C1_Witness ==
    /\ pc = "api"
    /\ calls = MaxCalls
    /\ Len(game_session.wrong_guesses) = 2
    /\ Len(game_session.correct_guesses) = 1
    /\ game_session.lives = 4

\* C2 (as stated): in every state of a session, from creation on and for
\* every word including the empty one, is_complete holds exactly when
\* lives <= 0 or every character of word is in correct_guesses.
C2_CompleteIff ==
    Created =>
        (game_session.is_complete <=>
            (game_session.lives <= 0
             \/ WordComplete(game_session.word, game_session.correct_guesses)))

\* C3: in every state of a session played by play_game, is_won holds
\* exactly when is_complete holds and lives > 0.
C3_WonIff ==
    Created =>
        (game_session.is_won <=>
            (game_session.is_complete /\ game_session.lives > 0))

\* a round won after wrong guesses, and counted
C3_Witness ==
    /\ pc = "done"
    /\ game_session.is_won
    /\ game_session.lives = 1
    /\ current_user.session_wins = 1

\* C4: a make_guess call whose letter, in either case, is already in
\* guessed_letters leaves the whole session unchanged and returns False.
C4_ReguessNoChange ==
    [][(calls' = calls + 1 /\ AlreadyGuessed(game_session, upper(guess')))
        => (game_session' = game_session /\ returned' = FALSE)]_vars

\* "A" was guessed and then the call make_guess(session, "a") was made
C4_Witness ==
    /\ pc = "api"
    /\ calls = 2
    /\ guess = <<"a">>
    /\ game_session.guessed_letters = << <<"A">> >>
    /\ game_session.correct_guesses = << <<"A">> >>
    /\ returned = FALSE

\* C5: once is_complete is true play_game passes no further guess to the
\* session: no field of the session changes any more, so Won stays Won and
\* Lost stays Lost.
C5_Terminal ==
    [][(Created /\ game_session.is_complete) => game_session' = game_session]_vars

\* a lost round whose outcome has been counted
C5_Witness ==
    /\ pc = "done"
    /\ game_session.is_complete
    /\ ~game_session.is_won
    /\ current_user.session_losses = 1

\* C6: in every state of a round lives is within 0..6; in particular a
\* complete session has lives >= 0, and the stage index 6 - lives is in 0..6.
C6_LivesRange ==
    Created =>
        /\ game_session.lives \in 0..6
        /\ (6 - game_session.lives) \in 0..6
        /\ (game_session.is_complete => game_session.lives >= 0)

\* the last life has been lost
C6_Witness ==
    /\ Created
    /\ game_session.lives = 0
    /\ game_session.is_complete
    /\ Len(game_session.guessed_letters) = 7

\* C7: for a non-empty word and no wrong guess, the session is complete
\* exactly when every distinct letter of the word has been guessed, and it
\* is then won with lives = 6.
C7_AllCorrectWins ==
    (Created /\ game_session.word # <<>> /\ game_session.wrong_guesses = <<>>) =>
        /\ game_session.is_complete <=>
              (ListSet(game_session.guessed_letters) = DistinctLetters(game_session.word))
        /\ game_session.is_complete =>
              (game_session.is_won /\ game_session.lives = 6)

\* the two letters of "CA" guessed in the order A, C
C7_Witness ==
    /\ game_session.word = <<"C", "A">>
    /\ game_session.guessed_letters = << <<"A">>, <<"C">> >>
    /\ game_session.is_complete
    /\ game_session.is_won
    /\ game_session.lives = 6

\* C8: six wrong guesses end the session Lost (is_complete, not is_won,
\* lives = 0), and no session is complete and not won with fewer than six.
C8_SixWrongLoses ==
    Created =>
        /\ Len(game_session.wrong_guesses) = 6 =>
              (game_session.is_complete /\ ~game_session.is_won /\ game_session.lives = 0)
        /\ (game_session.is_complete /\ ~game_session.is_won) =>
              Len(game_session.wrong_guesses) = 6

\* six wrong guesses and nothing else: X, Y, Z, Q, W, E against "CA"
C8_Witness ==
    /\ game_session.word = <<"C", "A">>
    /\ game_session.wrong_guesses =
         << <<"X">>, <<"Y">>, <<"Z">>, <<"Q">>, <<"W">>, <<"E">> >>
    /\ game_session.correct_guesses = <<>>
    /\ game_session.is_complete
    /\ ~game_session.is_won
    /\ game_session.lives = 0

\* C9 (as stated): no session that is in progress exists for the empty word.
C9_EmptyWordRejected ==
    ~(Created /\ game_session.word = <<>> /\ ~game_session.is_complete)

\* C10 (as stated): a make_guess call whose letter is not a single
\* alphabetic character leaves the session unchanged.
C10_NonLetterRejected ==
    [][(calls' = calls + 1 /\ ~ValidGuess(upper(guess')))
        => game_session' = game_session]_vars

\* every record the program holds: the acting one, the stored and the saved ones
AllRecords ==
    {current_user} \cup {accounts[i].value : i \in 1..Len(accounts)}
                   \cup {file[i] : i \in 1..Len(file)}

\* C11 (as stated): the lifetime plays of a stored account never exceed the
\* number of games completed under that account plus the guest games merged
\* into it, over any sequence of login, play, logout, exit and restart.
C11_CountedOnce ==
    \A i \in 1..Len(accounts) :
        accounts[i].value.plays <= credited[accounts[i].key]

\* C12: logout or exit of a registered identity adds each session counter to
\* its lifetime counter and leaves the session counters as they are, the file
\* then holds the records of the store, and after logout the acting identity
\* is a guest record with all counters zero.
C12_FoldOnLogoutExit ==
    [][(pc = "menu" /\ ~IsGuest(current_user)
            /\ (acting' = Standalone \/ pc' = "exited"))
        => LET old == current_user
               new == Get(accounts', acting)
           IN /\ new.wins   = old.wins + old.session_wins
              /\ new.losses = old.losses + old.session_losses
              /\ new.plays  = old.plays + old.session_plays
              /\ new.session_wins   = old.session_wins
              /\ new.session_losses = old.session_losses
              /\ new.session_plays  = old.session_plays
              /\ file' = [i \in 1..Len(accounts') |-> accounts'[i].value]
              /\ (acting' = Standalone =>
                    /\ current_user'.username = "guest"
                    /\ current_user'.wins = 0
                    /\ current_user'.losses = 0
                    /\ current_user'.plays = 0
                    /\ current_user'.session_wins = 0
                    /\ current_user'.session_losses = 0
                    /\ current_user'.session_plays = 0)]_vars

\* after a logout: the saved record of "ann" has its one game folded and its
\* session counters still set, the acting identity is a new guest
C12_Witness ==
    /\ pc = "menu"
    /\ acting = Standalone
    /\ current_user.session_plays = 0
    /\ HasKey(accounts, "ann")
    /\ Get(accounts, "ann").plays = 1
    /\ Get(accounts, "ann").session_plays = 1
    /\ file = Values(accounts)

\* C13: every record has plays = wins + losses and session_plays =
\* session_wins + session_losses, and no negative counter.
C13_CountersAddUp ==
    \A r \in AllRecords :
        /\ r.plays = r.wins + r.losses
        /\ r.session_plays = r.session_wins + r.session_losses
        /\ r.wins >= 0 /\ r.losses >= 0 /\ r.plays >= 0
        /\ r.session_wins >= 0 /\ r.session_losses >= 0 /\ r.session_plays >= 0

\* a saved record with a won and a lost game folded into its lifetime counters
C13_Witness ==
    \E i \in 1..Len(file) :
        file[i].wins = 1 /\ file[i].losses = 1 /\ file[i].plays = 2

\* C14: a successful login as guest gives the target record the sum of its
\* own and the guest's session counters, leaves its lifetime counters alone
\* and makes it the acting identity.
C14_LoginMerge ==
    [][(pc = "login_password" /\ success' = "ok" /\ IsGuest(current_user))
        => LET target == Get(accounts, username)
           IN /\ current_user'.session_wins =
                    target.session_wins + current_user.session_wins
              /\ current_user'.session_losses =
                    target.session_losses + current_user.session_losses
              /\ current_user'.session_plays =
                    target.session_plays + current_user.session_plays
              /\ current_user'.wins = target.wins
              /\ current_user'.losses = target.losses
              /\ current_user'.plays = target.plays
              /\ current_user'.username = username
              /\ acting' = username
              /\ Get(accounts', username) = current_user']_vars

\* "ann" had one game of its own in the session counters and the guest who
\* logged in brought another
C14_Witness ==
    /\ pc = "menu"
    /\ success = "ok"
    /\ process = "login"
    /\ acting = "ann"
    /\ current_user.session_plays = 2
    /\ current_user.plays = 1
    /\ games = 2

\* C15: a successful registration as guest creates a record with the
\* guest's session counters and zero lifetime counters, stored under its
\* username, saved, and acting.
C15_RegisterCopy ==
    [][(pc = "reg_name" /\ success' = "ok" /\ IsGuest(current_user))
        => /\ current_user'.session_wins = current_user.session_wins
           /\ current_user'.session_losses = current_user.session_losses
           /\ current_user'.session_plays = current_user.session_plays
           /\ current_user'.wins = 0
           /\ current_user'.losses = 0
           /\ current_user'.plays = 0
           /\ current_user'.username = username
           /\ HasKey(accounts', username)
           /\ Get(accounts', username) = current_user'
           /\ \E i \in 1..Len(file') : file'[i] = current_user'
           /\ Len(file') = Len(accounts')
           /\ acting' = username]_vars

\* a guest who had won a game has just registered
C15_Witness ==
    /\ pc = "menu"
    /\ success = "ok"
    /\ process = "registration"
    /\ acting = username
    /\ current_user.session_wins = 1
    /\ current_user.session_plays = 1
    /\ current_user.wins = 0
    /\ games = 1

\* C16: a registration inserts under a non-empty username that is not a key
\* yet, adds exactly one entry and leaves the existing entries as they are;
\* every key is the username of its record.
C16_RegisterFreshKey ==
    [][/\ \A i \in 1..Len(accounts') : accounts'[i].key = accounts'[i].value.username
       /\ (pc = "reg_name" /\ success' = "ok") =>
            /\ username # ""
            /\ ~HasKey(accounts, username)
            /\ Len(accounts') = Len(accounts) + 1
            /\ \A i \in 1..Len(accounts) : accounts'[i] = accounts[i]]_vars

\* a second account has just been registered
C16_Witness ==
    /\ pc = "menu"
    /\ success = "ok"
    /\ process = "registration"
    /\ Len(accounts) = 2
    /\ accounts[2].key = username

\* C17 (as stated): no stored and no saved record has the username "guest",
\* and an identity that is a stored record is not treated as a guest.
C17_GuestNeverStored ==
    /\ \A i \in 1..Len(accounts) : accounts[i].value.username # "guest"
    /\ \A i \in 1..Len(file) : file[i].username # "guest"
    /\ acting # Standalone => ~IsGuest(current_user)

\* C18: login makes a stored record the acting identity only in a step of
\* the password prompt where the username is a key of the store and the
\* password entered equals the stored one.
C18_LoginNeedsMatch ==
    [][(process = "login" /\ pc \in {"login_username", "login_password", "escalate"}
            /\ (acting' # acting \/ current_user' # current_user))
        => /\ pc = "login_password"
           /\ HasKey(accounts, username)
           /\ Get(accounts, username).password = password'
           /\ acting' = username
           /\ success' = "ok"]_vars

\* logged in to "ann" with the stored password
C18_Witness ==
    /\ pc = "menu"
    /\ success = "ok"
    /\ process = "login"
    /\ acting = "ann"
    /\ username = "ann"
    /\ password = GeneratedPassword
    /\ current_user.password = GeneratedPassword

\* C19: a prompt is shown only while fewer than 5 entries have failed, the
\* escalation handler is entered by the 5th failure and by nothing else, and
\* login or registration return failure only on the answer 2 to the handler.
C19_EscalateAfterFive ==
    [][/\ username_attempts' \in 0..5 /\ password_attempts' \in 0..5
       /\ pc' \in {"login_username", "reg_username"} => username_attempts' < 5
       /\ pc' \in {"login_password", "reg_password"} => password_attempts' < 5
       /\ (pc # "escalate" /\ pc' = "escalate") =>
            \/ /\ pc \in {"login_username", "reg_username"}
               /\ username_attempts = 4 /\ username_attempts' = 5
            \/ /\ pc \in {"login_password", "reg_password"}
               /\ password_attempts = 4 /\ password_attempts' = 5
       /\ (username_attempts' = 5 \/ password_attempts' = 5) => pc' = "escalate"
       /\ success' = "failed" => (pc = "escalate" /\ choice' = "2")
       /\ (pc \notin {"menu", "exited"} /\ pc' = "menu") =>
            \/ success' = "ok"
            \/ pc = "escalate" /\ choice' = "2" /\ success' = "failed"]_vars

\* a login given up after five wrong passwords
C19_Witness ==
    /\ pc = "menu"
    /\ process = "login"
    /\ success = "failed"
    /\ choice = "2"
    /\ username = ""

\* C20: the handler restarts the process with fresh counters on 1, returns
\* failure on 2 and prompts again on anything else; no step of a login or a
\* registration that does not succeed, and so none up to the return of
\* failure, changes the acting identity, the store or the file.
C20_EscalationChoices ==
    [][/\ (pc \in {"login_username", "login_password", "reg_username",
                   "reg_choice", "reg_password", "reg_name", "escalate"}
            /\ success' # "ok") =>
            /\ current_user' = current_user
            /\ acting' = acting
            /\ accounts' = accounts
            /\ file' = file
       /\ pc = "escalate" =>
        /\ choice' = "1" =>
             /\ pc' = IF process = "login" THEN "login_username" ELSE "reg_username"
             /\ username_attempts' = 0 /\ password_attempts' = 0
             /\ process' = process
             /\ success' = "none"
        /\ choice' = "2" => (pc' = "menu" /\ success' = "failed")
        /\ choice' \notin {"1", "2"} => (pc' = "escalate" /\ success' = "none")]_vars

\* a registration given up by a guest who has played, with one account stored
C20_Witness ==
    /\ pc = "menu"
    /\ process = "registration"
    /\ success = "failed"
    /\ choice = "2"
    /\ Len(accounts) = 1
    /\ current_user.session_plays = 1
    /\ IsGuest(current_user)

\* C28: in every state of a round of play_game, guessed_letters has no
\* duplicate, correct_guesses and wrong_guesses are disjoint and together
\* are exactly guessed_letters, every entry of correct_guesses is a
\* character of word and no entry of wrong_guesses is.
C28_GuessLists ==
    Created =>
        LET gs == game_session
        IN /\ Cardinality(ListSet(gs.guessed_letters)) = Len(gs.guessed_letters)
           /\ ListSet(gs.correct_guesses) \cap ListSet(gs.wrong_guesses) = {}
           /\ ListSet(gs.correct_guesses) \cup ListSet(gs.wrong_guesses)
                = ListSet(gs.guessed_letters)
           /\ Len(gs.correct_guesses) + Len(gs.wrong_guesses) = Len(gs.guessed_letters)
           /\ ListSet(gs.correct_guesses) \subseteq DistinctLetters(gs.word)
           /\ ListSet(gs.wrong_guesses) \cap DistinctLetters(gs.word) = {}

\* a round in progress with two wrong guesses and one correct guess
C28_Witness ==
    /\ pc = "loop"
    /\ Len(game_session.wrong_guesses) = 2
    /\ Len(game_session.correct_guesses) = 1
    /\ Len(game_session.word) = 2
    /\ ~game_session.is_complete

\* C29: a round of play_game has accepted at most (distinct characters of
\* the word + 6) guesses and is complete by then (already one guess
\* earlier), and when it ends exactly one of session_wins and
\* session_losses, and session_plays, of the acting identity grow by 1.
C29_RoundEnds ==
    [][/\ Created' =>
            LET most == Cardinality(DistinctLetters(game_session'.word)) + 6
            IN /\ calls' = Len(game_session'.guessed_letters)
               /\ calls' <= most
               /\ calls' >= most - 1 => game_session'.is_complete
       /\ (pc = "loop" /\ pc' = "done") =>
            /\ game_session.is_complete
            /\ current_user'.session_plays = current_user.session_plays + 1
            /\ \/ /\ current_user'.session_wins = current_user.session_wins + 1
                  /\ current_user'.session_losses = current_user.session_losses
               \/ /\ current_user'.session_wins = current_user.session_wins
                  /\ current_user'.session_losses = current_user.session_losses + 1
            /\ current_user'.wins = current_user.wins
            /\ current_user'.losses = current_user.losses
            /\ current_user'.plays = current_user.plays]_vars

\* a lost round on a word of two distinct characters: one correct and six
\* wrong guesses were accepted
C29_Witness ==
    /\ pc = "done"
    /\ calls = 7
    /\ Cardinality(DistinctLetters(game_session.word)) = 2
    /\ ~game_session.is_won
    /\ current_user.session_losses = 1
    /\ current_user.session_plays = 1

\* C22 (as stated): a write that fails in save_accounts leaves the menu
\* loop of main running: no registration, logout or exit ends in the
\* exception handler of main.
C22_WriteFailureSurvived == pc # "crashed"

\* C27 (as stated): an answer to the menu prompt outside the valid set of
\* the identity, {1,2,3,4} for a guest and {1,2,3} for a registered one, is
\* refused with a message and asked again.
C27_MenuValidSet ==
    [][(pc = "menu" /\ choice' # "" /\ choice' \notin Dispatched(current_user))
        => success' = "rejected"]_vars

\* C21 (as stated): logout_user called with a guest identity changes
\* nothing: the acting identity with its display name and session counters,
\* the store and the file are as before the call.
C21_GuestLogoutNoOp ==
    [][(pc = "call_logout_user" /\ IsGuest(current_user))
        => /\ current_user' = current_user
           /\ accounts' = accounts
           /\ file' = file]_vars

\* C23 (as stated): load_accounts on a missing file, on text that is not
\* JSON, or on an array with an object without the username key at any
\* position returns a dict with no record.
C23_ReadFailureEmpty ==
    [][(/\ pc = "call_load_accounts"
        /\ \/ disk \in {"missing", "malformed"}
           \/ \E i \in 1..Len(file) : "username" \notin DOMAIN file[i])
        => returned' = <<>>]_vars

\* C24: load_accounts after save_accounts returns the keys of the store
\* saved, no other key, and under each key a record with the same nine
\* field values.
C24_RoundTrip ==
    [][(pc = "saved" /\ pc' = "reloaded")
        => /\ Len(returned') = Len(accounts)
           /\ \A i \in 1..Len(accounts) :
                LET k == accounts[i].key
                IN /\ HasKey(returned', k)
                   /\ DOMAIN Get(returned', k) = DOMAIN accounts[i].value
                   /\ \A f \in DOMAIN accounts[i].value :
                        Get(returned', k)[f] = accounts[i].value[f]
           /\ \A j \in 1..Len(returned') : HasKey(accounts, returned'[j].key)]_vars

\* a store of two records, the one under "guest" first, saved and loaded
C24_Witness ==
    /\ pc = "reloaded"
    /\ Len(accounts) = 2
    /\ Len(returned) = 2
    /\ returned[1].key = "guest"
    /\ returned[2].value.name = "Ann"
    /\ Len(file) = 2

\* the password policy: 1 to 16 characters, with a lowercase letter, an
\* uppercase letter, a digit and a punctuation symbol among them
Policy(pw) ==
    LET used == {pw[i] : i \in 1..Len(pw)}
    IN /\ Len(pw) >= 1 /\ Len(pw) <= 16
       /\ used \cap LowerChars # {}
       /\ used \cap UpperChars # {}
       /\ used \cap {"1"} # {}
       /\ used \cap {"!"} # {}

\* C25: validate_password returns TRUE exactly for the candidates that meet
\* the policy and FALSE for every candidate of 17 or more characters; the
\* password register_user takes from its prompt, and the one it stores,
\* meets the policy.
C25_PasswordPolicy ==
    /\ pc = "validated" =>
         /\ returned = Policy(password)
         /\ Len(password) >= 17 => returned = FALSE
    /\ pc = "reg_name" => Policy(password)
    /\ (process = "registration" /\ pc = "menu") =>
         \A i \in 1..Len(accounts) : Policy(accounts[i].value.password)

\* a candidate of 16 characters with all four types has been accepted
C25_Witness ==
    /\ pc = "validated"
    /\ returned = TRUE
    /\ Len(password) = 16

\* C26: whatever random.choice and random.shuffle do, generate_password
\* returns 12 characters that validate_password accepts: a lowercase
\* letter, an uppercase letter, a digit and a symbol of its safe set are
\* among them.
C26_GeneratedValid ==
    pc = "generated" =>
        /\ Len(password) = 12
        /\ validate_password(password)
        /\ \E i \in 1..12 : password[i] \in LowerChars
        /\ \E i \in 1..12 : password[i] \in UpperChars
        /\ \E i \in 1..12 : password[i] \in {"1"}
        /\ \E i \in 1..12 : password[i] \in {"!"}

\* a generated password that the shuffle has put in another order than the
\* list was built in
C26_Witness ==
    /\ pc = "generated"
    /\ password[1] = "!"
    /\ password[2] = "a"
    /\ password[12] = "C"
    /\ password[7] = "x"

====
